---- MODULE Spec2Model ----
(***************************************************************************)
(* Model of pkg/reconciler/instances/ory/k8s/ory_crds.go: one invocation   *)
(* of DefaultOryFinalizersHandler.FindAndDeleteOryFinalizers running       *)
(* against a cluster API server that other clients write to concurrently.  *)
(*                                                                         *)
(* Every API request is one atomic step at the server; between two         *)
(* requests of the handler any number of requests of other clients (the    *)
(* Env actions) may be served.                                             *)
(***************************************************************************)
EXTENDS Integers, Sequences, FiniteSets, TLC

VARIABLES
    crdExists,  \* cluster: the CRD oauth2clients.hydra.ory.sh is installed
    store,      \* cluster: key -> stored custom resource instance (or NoObject)
    rev,        \* cluster: key -> last resource version handed out for that key
    envWrites,  \* number of write requests other clients have made so far
    pc,         \* handler: position in FindAndDeleteOryFinalizers
    crdef,      \* handler: the GroupVersionResource built from the CRD (l.61-65)
    list,       \* handler: customResourceList.Items (l.80)
    idx,        \* handler: loop index i of l.90, 1-based
    attempt,    \* handler: attempt of RetryOnConflict for Items[i], 1-based
    res,        \* handler: res of removeCustomResourceFinalizers (l.104)
    result,     \* handler: value returned by FindAndDeleteOryFinalizers
    log,        \* history: the API requests the handler issued, with outcomes
    got,        \* history: the object the server returned for the last instance Get
    sent        \* history: the object the handler submitted in its last Update

vars == <<crdExists, store, rev, envWrites, pc, crdef, list, idx, attempt,
          res, result, log, got, sent>>

envVars  == <<crdExists, store, rev, envWrites>>
procVars == <<pc, crdef, list, idx, attempt, res, result>>
histVars == <<log, got, sent>>

----------------------------------------------------------------------------
(* Bounds of the model *)

\* Other clients make at most this many write requests during one run.
MaxEnvWrites == 5

\* Instance keys <<namespace, name>>, in the order the server lists them.
KeyOrder == << <<"ns1", "a">>, <<"ns2", "b">> >>
Keys == {KeyOrder[i] : i \in 1..Len(KeyOrder)}
NoKey == <<"", "">>

\* Finalizer lists an instance can carry.
FinChoices == {<<>>, <<"hydra">>}

----------------------------------------------------------------------------
(* Values *)

\* client-go util/retry DefaultRetry.Steps, the backoff passed in l.92
DefaultRetrySteps == 5

\* v1.NamespaceAll
NamespaceAll == ""

\* A custom resource instance: its namespace and name, metadata.resourceVersion
\* (rv), metadata.finalizers (fin) and whether metadata.deletionTimestamp is
\* set (deleting). The rest of its content is not followed: a change of it
\* shows in the resource version.
\* NoObject is the nil *unstructured.Unstructured.
NoObject == [present |-> FALSE, ns |-> "", name |-> "", rv |-> 0,
             fin |-> <<>>, deleting |-> FALSE]

KeyOf(obj) == <<obj.ns, obj.name>>

\* schema.GroupVersionResource of the installed CRD, and the zero value
OryGVR   == [Group |-> "hydra.ory.sh", Version |-> "v1alpha1", Resource |-> "oauth2clients"]
EmptyGVR == [Group |-> "", Version |-> "", Resource |-> ""]

\* *CustomResourceDefinition values: the installed CRD, the zero-valued
\* struct and the nil pointer
OryCRD  == [nil |-> FALSE, Group |-> "hydra.ory.sh", Version |-> "v1alpha1", Plural |-> "oauth2clients"]
ZeroCRD == [nil |-> FALSE, Group |-> "", Version |-> "", Plural |-> ""]
NilCRD  == [nil |-> TRUE, Group |-> "", Version |-> "", Plural |-> ""]

\* error values: "nil" is no error
NoErr == [err |-> "nil", wrapped |-> FALSE]
Running == [err |-> "running", wrapped |-> FALSE]

IsNotFound(e) == e = "NotFound"
IsConflict(e) == e = "Conflict"

----------------------------------------------------------------------------
(* The API server as the client library presents it to the handler.        *)
(* "Other" stands for any error that is neither NotFound nor Conflict      *)
(* (transport failure, server failure); such a request changes nothing.    *)

\* apixClient.CustomResourceDefinitions().Get (l.51). The generated typed
\* client that NewForConfig (l.43) builds allocates the result before the
\* request and decodes into it, so next to an error the caller receives a
\* non-nil, zero-valued struct. A client that hands back nil with the error
\* (the generated fake does) is covered as well.
CrdGetResponses ==
    IF crdExists
    THEN {[obj |-> OryCRD, err |-> "nil"]} \cup
         {[obj |-> o, err |-> "Other"] : o \in {ZeroCRD, NilCRD}}
    ELSE {[obj |-> o, err |-> e] : o \in {ZeroCRD, NilCRD}, e \in {"NotFound", "Other"}}

\* The instances stored in namespace ns (all namespaces for NamespaceAll),
\* in the server's listing order.
RECURSIVE ItemsFrom(_, _)
ItemsFrom(i, ns) ==
    IF i > Len(KeyOrder) THEN <<>>
    ELSE LET o == store[KeyOrder[i]] IN
         IF o.present /\ (ns = NamespaceAll \/ o.ns = ns)
         THEN <<o>> \o ItemsFrom(i + 1, ns)
         ELSE ItemsFrom(i + 1, ns)

\* dynamic.Resource(gvr).Namespace(ns).List (l.80): nil list on any error.
\* A path that names no served resource is answered with NotFound or with
\* a body that holds no items.
ListResponses(gvr, ns) ==
    {[nil |-> TRUE, items |-> <<>>, err |-> "Other"]} \cup
    IF gvr = OryGVR /\ crdExists
    THEN {[nil |-> FALSE, items |-> ItemsFrom(1, ns), err |-> "nil"]}
    ELSE IF gvr = OryGVR
    THEN {[nil |-> TRUE, items |-> <<>>, err |-> "NotFound"]}
    ELSE {[nil |-> TRUE, items |-> <<>>, err |-> "NotFound"],
          [nil |-> FALSE, items |-> <<>>, err |-> "nil"]}

\* dynamic.Resource(gvr).Namespace(ns).Get(name) (l.104): nil object on any
\* error.
GetResponses(gvr, ns, name) ==
    {[obj |-> NoObject, err |-> "Other"]} \cup
    IF gvr = OryGVR /\ crdExists /\ <<ns, name>> \in Keys /\ store[<<ns, name>>].present
    THEN {[obj |-> store[<<ns, name>>], err |-> "nil"]}
    ELSE {[obj |-> NoObject, err |-> "NotFound"]}

\* dynamic.Resource(gvr).Namespace(ns).Update(obj) (l.116) under the
\* server's optimistic concurrency: the write is accepted only when the
\* submitted resource version is the stored one.
UpdateOutcome(gvr, ns, obj) ==
    LET k == <<ns, obj.name>> IN
    IF ~(gvr = OryGVR /\ crdExists /\ k \in Keys /\ store[k].present) THEN "NotFound"
    ELSE IF store[k].rv # obj.rv THEN "Conflict"
    ELSE "nil"

UpdateResponses(gvr, ns, obj) == {UpdateOutcome(gvr, ns, obj), "Other"}

\* An instance under deletion stays stored while it has finalizers and is
\* removed by the write that leaves it without any.
Settled(obj) == IF obj.deleting /\ obj.fin = <<>> THEN NoObject ELSE obj

\* The stored state after the Update request answered with e.
StoreAfterUpdate(ns, obj, e) ==
    IF e = "nil"
    THEN [store EXCEPT ![<<ns, obj.name>>] =
                           Settled([obj EXCEPT !.rv = rev[<<ns, obj.name>>] + 1])]
    ELSE store

RevAfterUpdate(ns, obj, e) ==
    IF e = "nil"
    THEN [rev EXCEPT ![<<ns, obj.name>>] = @ + 1]
    ELSE rev

----------------------------------------------------------------------------
(* Decisions of the handler's code *)

\* Mutant of ReturnsErr: the error of the request is dropped
MutReturnsErrNever(e) == FALSE

\* l.52, l.81, l.105: an error other than NotFound is returned
ReturnsErr(e) == e # "nil" /\ ~IsNotFound(e)

\* l.56: crd == nil
CrdMissing(crd) == crd.nil

\* l.61-65
GVROf(crd) == [Group |-> crd.Group, Version |-> crd.Version, Resource |-> crd.Plural]

\* Mutant of ListNamespace: the instances of one namespace only
MutListNamespaceFirst == "ns1"

\* l.80: the namespace the instances are listed in
ListNamespace == NamespaceAll

\* Mutant of GetTarget: the item's namespace is not passed on
MutGetTargetFirstNamespace(instance) == <<"ns1", instance.name>>

\* l.104: the namespace and name the fresh Get asks for
GetTarget(instance) == <<instance.ns, instance.name>>

\* Mutant of HasFinalizers: the Update is sent whatever the Get returned
MutHasFinalizersAlways(obj) == TRUE

\* l.112: len(res.GetFinalizers()) > 0
HasFinalizers(obj) == Len(obj.fin) > 0

\* Mutant of WithoutFinalizers: the object handed to Update is built anew
\* from the identity of the fetched one
MutWithoutFinalizersRebuilt(obj) == [obj EXCEPT !.fin = <<>>, !.deleting = FALSE]

\* l.115: res.SetFinalizers(nil), the object handed to Update
WithoutFinalizers(obj) == [obj EXCEPT !.fin = <<>>]

\* l.116: the namespace the Update is sent to
UpdateNamespace(obj) == obj.ns

\* Mutant of RetriesAfter: every error is retried
MutRetriesAfterAnyError(e, n) == e # "nil" /\ n < DefaultRetrySteps

\* Mutant of RetriesAfter: conflicts are retried without a limit
MutRetriesAfterUnbounded(e, n) == IsConflict(e)

\* l.92: RetryOnConflict(DefaultRetry, fn) runs fn again after the error e
\* of attempt number n
RetriesAfter(e, n) == IsConflict(e) /\ n < DefaultRetrySteps

\* l.94: errors.Wrapf
Wrapped(e) == [err |-> e, wrapped |-> TRUE]

Call(op, key, out) == [op |-> op, key |-> key, out |-> out]

\* FindAndDeleteOryFinalizers returns r
Return(r) ==
    /\ pc' = "done"
    /\ result' = r

\* Mutant of LoopStopsOn: a failed item does not end the loop
MutLoopStopsOnNothing(retryErr) == FALSE

\* l.93: retryErr != nil ends the loop over the items
LoopStopsOn(retryErr) == retryErr # "nil"

\* l.92-96: fn, the attempt for Items[idx], returned e
FnReturned(e) ==
    IF RetriesAfter(e, attempt)
    THEN /\ attempt' = attempt + 1
         /\ pc' = "get"
         /\ UNCHANGED <<idx, result>>
    ELSE IF LoopStopsOn(e)
    THEN /\ Return(Wrapped(e))
         /\ UNCHANGED <<idx, attempt>>
    ELSE IF idx < Len(list)
    THEN /\ idx' = idx + 1
         /\ attempt' = 1
         /\ pc' = "get"
         /\ result' = result
    ELSE /\ Return(NoErr)
         /\ UNCHANGED <<idx, attempt>>

----------------------------------------------------------------------------
(* The handler *)

Init ==
    /\ crdExists \in BOOLEAN
    /\ store \in [Keys -> {NoObject} \cup
                    {[present |-> TRUE, ns |-> k[1], name |-> k[2], rv |-> 1,
                      fin |-> f, deleting |-> d] :
                         k \in Keys, f \in FinChoices, d \in BOOLEAN}]
    /\ \A k \in Keys : store[k].present =>
            /\ crdExists
            /\ KeyOf(store[k]) = k
            /\ Settled(store[k]) = store[k]
    /\ rev = [k \in Keys |-> 1]
    /\ envWrites = 0
    /\ pc = "config"
    /\ crdef = EmptyGVR
    /\ list = <<>>
    /\ idx = 0
    /\ attempt = 0
    /\ res = NoObject
    /\ result = Running
    /\ log = <<>>
    /\ got = NoObject
    /\ sent = NoObject

\* l.38-49: restConfig and the two NewForConfig calls
Config ==
    /\ pc = "config"
    /\ \E e \in {"nil", "Config"} :
         IF e # "nil"
         THEN Return([err |-> e, wrapped |-> FALSE])
         ELSE pc' = "getcrd" /\ result' = result
    /\ UNCHANGED <<crdef, list, idx, attempt, res>>
    /\ UNCHANGED envVars
    /\ UNCHANGED histVars

\* l.51-65
GetCRD ==
    /\ pc = "getcrd"
    /\ \E r \in CrdGetResponses :
         /\ log' = Append(log, Call("GetCRD", NoKey, r.err))
         /\ IF ReturnsErr(r.err)
            THEN Return([err |-> r.err, wrapped |-> FALSE]) /\ crdef' = crdef
            ELSE IF CrdMissing(r.obj)
            THEN Return(NoErr) /\ crdef' = crdef
            ELSE /\ crdef' = GVROf(r.obj)
                 /\ pc' = "list"
                 /\ result' = result
    /\ UNCHANGED <<list, idx, attempt, res, got, sent>>
    /\ UNCHANGED envVars

\* l.67-71 with l.80-90: the List and the entry into the loop
List ==
    /\ pc = "list"
    /\ \E r \in ListResponses(crdef, ListNamespace) :
         /\ log' = Append(log, Call("List", NoKey, r.err))
         /\ IF ReturnsErr(r.err)
            THEN Return([err |-> r.err, wrapped |-> FALSE]) /\ UNCHANGED <<list, idx, attempt>>
            ELSE IF r.nil
            THEN Return(NoErr) /\ UNCHANGED <<list, idx, attempt>>
            ELSE /\ list' = r.items
                 /\ IF Len(r.items) = 0
                    THEN Return(NoErr) /\ UNCHANGED <<idx, attempt>>
                    ELSE /\ idx' = 1
                         /\ attempt' = 1
                         /\ pc' = "get"
                         /\ result' = result
    /\ UNCHANGED <<crdef, res, got, sent>>
    /\ UNCHANGED envVars

\* l.104-112: the fresh Get of one attempt and the test of its finalizers
GetInstance ==
    /\ pc = "get"
    /\ LET t == GetTarget(list[idx]) IN
       \E r \in GetResponses(crdef, t[1], t[2]) :
         /\ log' = Append(log, Call("Get", t, r.err))
         /\ got' = r.obj
         /\ res' = r.obj
         /\ IF ReturnsErr(r.err)
            THEN FnReturned(r.err)
            ELSE IF ~r.obj.present
            THEN FnReturned("nil")
            ELSE IF HasFinalizers(r.obj)
            THEN pc' = "update" /\ UNCHANGED <<idx, attempt, result>>
            ELSE FnReturned("nil")
    /\ UNCHANGED <<crdef, list, sent>>
    /\ UNCHANGED envVars

\* l.115-122: the Update of the same attempt
UpdateInstance ==
    /\ pc = "update"
    /\ LET req == WithoutFinalizers(res)
           ns  == UpdateNamespace(res)
       IN \E e \in UpdateResponses(crdef, ns, req) :
            /\ log' = Append(log, Call("Update", <<ns, req.name>>, e))
            /\ sent' = req
            /\ store' = StoreAfterUpdate(ns, req, e)
            /\ rev' = RevAfterUpdate(ns, req, e)
            /\ FnReturned(e)
    /\ UNCHANGED <<crdef, list, res, got, crdExists, envWrites>>

Proc == Config \/ GetCRD \/ List \/ GetInstance \/ UpdateInstance

----------------------------------------------------------------------------
(* Other clients of the same cluster *)

\* Another client's write request is served now.
EnvMayWrite == envWrites < MaxEnvWrites

\* An update by another client: it sets the finalizer list, or leaves it and
\* changes other content; either way the instance gets a new resource version.
EnvModify ==
    /\ EnvMayWrite
    /\ \E k \in Keys, f \in FinChoices :
         /\ store[k].present
         /\ store' = [store EXCEPT ![k] =
                          Settled([@ EXCEPT !.fin = f, !.rv = rev[k] + 1])]
         /\ rev' = [rev EXCEPT ![k] = @ + 1]
    /\ envWrites' = envWrites + 1
    /\ UNCHANGED <<crdExists>>
    /\ UNCHANGED procVars
    /\ UNCHANGED histVars

\* A delete request removes an instance without finalizers and marks one
\* with finalizers as under deletion.
EnvDelete ==
    /\ EnvMayWrite
    /\ \E k \in Keys :
         /\ store[k].present
         /\ ~store[k].deleting
         /\ store' = [store EXCEPT ![k] =
                          Settled([@ EXCEPT !.deleting = TRUE, !.rv = rev[k] + 1])]
         /\ rev' = [rev EXCEPT ![k] = @ + 1]
    /\ envWrites' = envWrites + 1
    /\ UNCHANGED <<crdExists>>
    /\ UNCHANGED procVars
    /\ UNCHANGED histVars

EnvCreate ==
    /\ EnvMayWrite
    /\ crdExists
    /\ \E k \in Keys, f \in FinChoices :
         /\ ~store[k].present
         /\ store' = [store EXCEPT ![k] = [present |-> TRUE, ns |-> k[1], name |-> k[2],
                                           rv |-> rev[k] + 1, fin |-> f,
                                           deleting |-> FALSE]]
         /\ rev' = [rev EXCEPT ![k] = @ + 1]
    /\ envWrites' = envWrites + 1
    /\ UNCHANGED <<crdExists>>
    /\ UNCHANGED procVars
    /\ UNCHANGED histVars

\* A CRD none of whose instances has finalizers is deleted together with
\* its instances.
EnvDeleteCRD ==
    /\ EnvMayWrite
    /\ crdExists
    /\ \A k \in Keys : store[k].fin = <<>>
    /\ crdExists' = FALSE
    /\ store' = [k \in Keys |-> NoObject]
    /\ envWrites' = envWrites + 1
    /\ UNCHANGED <<rev>>
    /\ UNCHANGED procVars
    /\ UNCHANGED histVars

Env == EnvModify \/ EnvDelete \/ EnvCreate \/ EnvDeleteCRD

Next ==
    \/ Config
    \/ GetCRD
    \/ List
    \/ GetInstance
    \/ UpdateInstance
    \/ EnvModify
    \/ EnvDelete
    \/ EnvCreate
    \/ EnvDeleteCRD

Spec == Init /\ [][Next]_vars

\* The handler is a running goroutine: whenever it can take its next step,
\* it eventually does.
FairSpec == Spec /\ WF_vars(Proc)

----------------------------------------------------------------------------
(* Vocabulary of the properties *)

Last(q) == q[Len(q)]

\* The handler issued an API request in this step.
Requested == log' # log

\* The keys of the single list result, and a key's place in it (0: not in it)
ListedKeys == {KeyOf(list[j]) : j \in 1..Len(list)}
PosInList(k) == IF k \in ListedKeys THEN CHOOSE j \in 1..Len(list) : KeyOf(list[j]) = k ELSE 0

\* Positions of the log that hold a request of kind op
CallsOf(op) == {p \in 1..Len(log) : log[p].op = op}
InstanceCalls == CallsOf("Get") \cup CallsOf("Update")

\* The number of Updates of key k in the log q that the server rejected with
\* a version conflict
ConflictsOn(k, q) ==
    Cardinality({p \in 1..Len(q) : q[p].op = "Update" /\ q[p].key = k /\ q[p].out = "Conflict"})

\* The keys whose finalizers the handler has cleared with a successful Update
ClearedKeys == {log[p].key : p \in {x \in CallsOf("Update") : log[x].out = "nil"}}

Returned == pc = "done"

----------------------------------------------------------------------------
(* C1: if the invocation returns nil, the CRD exists and no other client  *)
(* wrote to the cluster during the call, then every instance of the CRD,  *)
(* in every namespace, has an empty finalizer list in the final state     *)
(* (an instance that was under deletion is no longer stored then).        *)
C1_AllFinalizersCleared ==
    (Returned /\ result = NoErr /\ crdExists /\ envWrites = 0)
        => \A k \in Keys : store[k].present => store[k].fin = <<>>

\* An undisturbed successful run that cleared an instance in each namespace
C1_Witness ==
    /\ Returned /\ result = NoErr /\ crdExists /\ envWrites = 0
    /\ ClearedKeys = Keys

----------------------------------------------------------------------------
(* C3: an Update is issued only when the Get of the same attempt returned *)
(* the instance with a non-empty finalizer list; when the freshly fetched *)
(* finalizer list is empty, no write request follows and the instance is  *)
(* left unchanged.                                                        *)
C3_UpdateStep ==
    (Requested /\ Last(log').op = "Update") =>
        /\ Len(log) > 0
        /\ Last(log).op = "Get"
        /\ Last(log).out = "nil"
        /\ Last(log).key = Last(log').key
        /\ got.present
        /\ Len(got.fin) > 0

C3_EmptyGetStep ==
    (Requested /\ Last(log').op = "Get" /\ got'.present /\ got'.fin = <<>>) =>
        /\ pc' # "update"
        /\ store' = store

C3_UpdateOnlyForFinalizers == [][C3_UpdateStep /\ C3_EmptyGetStep]_vars

\* An instance was fetched without finalizers and passed over, after another
\* one had been updated
C3_Witness ==
    /\ Len(log) > 0
    /\ Last(log).op = "Get" /\ Last(log).out = "nil"
    /\ got.present /\ got.fin = <<>>
    /\ pc # "update"
    /\ ClearedKeys # {}

----------------------------------------------------------------------------
(* C4: the requests of one invocation come in a fixed linear order: the   *)
(* CRD Get, then the List, then the instances one at a time in list order *)
(* with all attempts for one instance before the first Get of the next;   *)
(* a List only after a CRD Get without a non-NotFound error, an instance  *)
(* Get or Update only after a List that returned a result.                *)
C4_LinearOrder ==
    /\ \A p \in 1..Len(log) :
         /\ log[p].op = "GetCRD" <=> p = 1
         /\ log[p].op = "List" <=> p = 2
         /\ p = 2 => log[1].out \in {"nil", "NotFound"}
         /\ p >= 3 => log[2].out = "nil" /\ log[p].key \in ListedKeys
         /\ p = 3 => log[p].op = "Get" /\ PosInList(log[p].key) = 1
         /\ p > 3 =>
              \/ /\ log[p].op = "Update"
                 /\ log[p - 1].op = "Get"
                 /\ log[p].key = log[p - 1].key
              \/ /\ log[p].op = "Get"
                 /\ log[p].key = log[p - 1].key
              \/ /\ log[p].op = "Get"
                 /\ PosInList(log[p].key) = PosInList(log[p - 1].key) + 1
    /\ \A p, q \in InstanceCalls : p < q => PosInList(log[p].key) <= PosInList(log[q].key)

\* A finished run over two instances, the first of which needed a retry
C4_Witness ==
    /\ Returned
    /\ Len(list) = 2
    /\ ConflictsOn(KeyOf(list[1]), log) > 0
    /\ \E p \in InstanceCalls : PosInList(log[p].key) = 2

----------------------------------------------------------------------------
(* C5: the procedure is one-shot: the CRD is fetched once and the         *)
(* instances are listed once; every instance fetched or updated is in     *)
(* that single list result, so an instance created after the list is      *)
(* never read or written; an instance whose finalizers were cleared is    *)
(* not touched again, whatever another client adds to it afterwards.      *)
C5_Requests ==
    /\ Cardinality(CallsOf("GetCRD")) <= 1
    /\ Cardinality(CallsOf("List")) <= 1
    /\ pc \in {"list", "get", "update"} => Cardinality(CallsOf("GetCRD")) = 1
    /\ (pc \in {"get", "update"} \/ InstanceCalls # {}) =>
         Cardinality(CallsOf("GetCRD")) = 1 /\ Cardinality(CallsOf("List")) = 1
    /\ \A p \in InstanceCalls : log[p].key \in ListedKeys
    /\ \A p \in CallsOf("Update") :
         log[p].out = "nil" => \A q \in InstanceCalls : q > p => log[q].key # log[p].key

C5_WriteStep ==
    \A k \in Keys :
        (Requested /\ store'[k] # store[k]) => k \in ListedKeys /\ k \notin ClearedKeys

----------------------------------------------------------------------------
(* C2: an Update rejected with a version conflict makes the whole         *)
(* get-modify-update step run again, starting with a fresh Get; only a    *)
(* conflict leads to another attempt; consequently an instance on which   *)
(* other writers cause fewer conflicts than the retry helper allows       *)
(* attempts ends with its finalizers cleared and the loop moves on to the *)
(* next instance. Stated for the requests that no transport or server     *)
(* failure ("Other") hits: the loop over the items ends with an error     *)
(* only after DefaultRetrySteps conflicts on the item at hand.            *)
C2_FewConflictsMoveOn ==
    (pc = "done" /\ result.wrapped /\ result.err # "Other") =>
        Cardinality({p \in 1..Len(log) : log[p].op = "Update"
                                          /\ log[p].key = <<list[idx].ns, list[idx].name>>
                                          /\ log[p].out = "Conflict"}) >= DefaultRetrySteps

(* The retry mechanics of C2 taken by themselves, with every error that   *)
(* is no conflict (NotFound on the Update among them) ending the attempts *)
(* for the instance.                                                      *)

\* The handler's step is the request of an attempt for Items[idx].
AttemptStep == Requested /\ pc \in {"get", "update"}

\* The handler's step ends the work on Items[idx] without an error.
MovesOn == AttemptStep /\ (idx' = idx + 1 \/ (pc' = "done" /\ result' = NoErr))

RetryStep ==
    LET k == KeyOf(list[idx])
        e == Last(log').out
    IN  AttemptStep =>
        /\ (e = "Conflict" /\ ConflictsOn(k, log') < DefaultRetrySteps) =>
              /\ pc' = "get" /\ idx' = idx /\ attempt' = attempt + 1
        /\ (attempt' # attempt /\ idx' = idx) =>
              /\ Last(log').op = "Update" /\ e = "Conflict"
              /\ attempt' = attempt + 1
              /\ pc' = "get"
        /\ (Last(log').op = "Update") =>
              /\ Last(log).op = "Get" /\ Last(log).key = k /\ Last(log').key = k
              /\ sent'.rv = got.rv
        /\ (e = "Other" \/ (e = "NotFound" /\ Last(log').op = "Update")) =>
              pc' = "done" /\ result'.err = e
        /\ (pc' = "done" /\ result'.err = "Conflict") =>
              ConflictsOn(k, log') >= DefaultRetrySteps
        /\ (e \in {"nil", "Conflict"} /\ ConflictsOn(k, log') < DefaultRetrySteps) =>
              \/ pc' = "update"
              \/ pc' = "get" /\ idx' = idx
              \/ MovesOn
        /\ MovesOn => (~store'[k].present \/ store'[k].fin = <<>>)

RetryMechanics == [][RetryStep]_vars

----------------------------------------------------------------------------
(* C8: no lost update: every Update submits the object the Get of the     *)
(* same attempt returned, with the same resource version and only its     *)
(* finalizer list emptied; a successful Update overwrites no modification *)
(* made between that Get and that Update, and the stored instance then    *)
(* differs from the fetched one only in its finalizers (and in the        *)
(* resource version the server assigns); an instance under deletion is    *)
(* removed by that Update and nothing of it stays stored.                 *)
C8_Step ==
    LET k == Last(log').key IN
    (Requested /\ Last(log').op = "Update") =>
        /\ Last(log).op = "Get" /\ Last(log).key = k
        /\ KeyOf(got) = k
        /\ sent' = [got EXCEPT !.fin = <<>>]
        /\ Last(log').out = "nil" =>
              /\ store[k] = got
              /\ store'[k].present =>
                    /\ store'[k] = [got EXCEPT !.fin = <<>>, !.rv = store'[k].rv]
                    /\ store'[k].rv # got.rv
              /\ ~store'[k].present => got.deleting
              /\ \A j \in Keys \ {k} : store'[j] = store[j]
        /\ Last(log').out # "nil" => store' = store

C8_NoLostUpdate == [][C8_Step]_vars

\* An Update went through after an earlier one for the same instance had been
\* rejected because another client had asked for its deletion in between; the
\* instance was under deletion when fetched again and is gone now
C8_Witness ==
    /\ Len(log) > 0
    /\ Last(log).op = "Update" /\ Last(log).out = "nil"
    /\ ConflictsOn(Last(log).key, log) > 0
    /\ sent.deleting
    /\ ~store[Last(log).key].present

----------------------------------------------------------------------------
(* C9: fail fast, no rollback: when the retry loop of one instance ends   *)
(* with an error (a Get or Update error that is no conflict, or a         *)
(* conflict on the last allowed attempt) that error is returned wrapped   *)
(* and the invocation returns non-nil; no later instance is fetched or    *)
(* updated, and what the handler cleared before it does not put back.     *)
C9_Failed ==
    (Returned /\ result.wrapped) =>
        /\ result.err \notin {"nil", "running"}
        /\ Last(log).out = result.err
        /\ Last(log).key = KeyOf(list[idx])
        /\ IsConflict(result.err) => attempt = DefaultRetrySteps
        /\ \A p \in InstanceCalls : PosInList(log[p].key) <= idx

C9_Step ==
    /\ (AttemptStep /\ Last(log').out \notin {"nil", "NotFound", "Conflict"}) =>
          pc' = "done" /\ result' = [err |-> Last(log').out, wrapped |-> TRUE]
    /\ (AttemptStep /\ Last(log').out = "NotFound" /\ Last(log').op = "Update") =>
          pc' = "done" /\ result' = [err |-> "NotFound", wrapped |-> TRUE]
    /\ (AttemptStep /\ Last(log').out = "Conflict" /\ attempt = DefaultRetrySteps) =>
          pc' = "done" /\ result' = [err |-> "Conflict", wrapped |-> TRUE]
    /\ Returned => log' = log /\ result' = result /\ pc' = pc
    /\ Requested => \A k \in Keys : store'[k] # store[k] => store'[k].fin = <<>>

C9_FailFast == [](C9_Failed) /\ [][C9_Step]_vars

\* The first instance was cleared, the second failed, the invocation returned
\* the error and the first is still cleared
C9_Witness ==
    /\ Returned /\ result.wrapped
    /\ Len(list) = 2 /\ idx = 2
    /\ KeyOf(list[1]) \in ClearedKeys
    /\ store[KeyOf(list[1])].present /\ store[KeyOf(list[1])].fin = <<>>

----------------------------------------------------------------------------
(* C10: every invocation terminates, returning nil or an error, also      *)
(* while other clients keep writing: an instance gets at most             *)
(* DefaultRetrySteps attempts, the list is walked once, and when every    *)
(* allowed attempt for an instance ends in a conflict the invocation      *)
(* returns that error instead of trying again.                            *)
GetsOf(k) == {p \in CallsOf("Get") : log[p].key = k}

C10_Bounded ==
    /\ attempt <= DefaultRetrySteps
    /\ idx <= Len(list)
    /\ Len(log) <= 2 + 2 * DefaultRetrySteps * Len(list)
    /\ \A k \in Keys :
         /\ Cardinality(GetsOf(k)) <= DefaultRetrySteps
         /\ ConflictsOn(k, log) >= DefaultRetrySteps =>
               Returned /\ result = [err |-> "Conflict", wrapped |-> TRUE]
    /\ Returned => result.err # "running"

\* Every request of the handler brings it closer to its return.
Remaining ==
    IF Returned THEN 0
    ELSE IF pc = "config" THEN 4 + 2 * DefaultRetrySteps * Cardinality(Keys)
    ELSE IF pc = "getcrd" THEN 3 + 2 * DefaultRetrySteps * Cardinality(Keys)
    ELSE IF pc = "list" THEN 2 + 2 * DefaultRetrySteps * Cardinality(Keys)
    ELSE 2 * DefaultRetrySteps * (Len(list) - idx)
         + 2 * (DefaultRetrySteps - attempt)
         + (IF pc = "get" THEN 2 ELSE 1)

C10_Progress == (pc' # pc \/ Requested) => Remaining' < Remaining /\ Remaining' >= 0

C10_Terminates == <>Returned /\ [](C10_Bounded) /\ [][C10_Progress]_vars

\* Five conflicts in a row on one instance: the invocation returned the error
C10_Witness ==
    /\ Returned
    /\ result = [err |-> "Conflict", wrapped |-> TRUE]
    /\ attempt = DefaultRetrySteps
    /\ ConflictsOn(KeyOf(list[idx]), log) = DefaultRetrySteps

----------------------------------------------------------------------------
(* C6: when the lookup of the CRD reports NotFound the invocation returns *)
(* nil, when it fails with another error that error is returned; in both  *)
(* cases no List, Get or Update of custom resource instances is issued.   *)
C6_NoRequestAfterFailedLookup ==
    (Len(log) >= 1 /\ log[1].op = "GetCRD" /\ log[1].out # "nil") =>
        /\ Len(log) = 1
        /\ Returned => IF log[1].out = "NotFound"
                       THEN result = NoErr
                       ELSE result = [err |-> log[1].out, wrapped |-> FALSE]

----------------------------------------------------------------------------
(* C7: an instance that another client deletes after the list was taken,  *)
(* before its Get or between its Get and its Update, is skipped without   *)
(* error: a run whose instance requests met nothing but success and       *)
(* NotFound returns nil and has gone through every listed instance.       *)
C7_DeletedInstanceSkipped ==
    (Returned /\ InstanceCalls # {}
              /\ \A p \in InstanceCalls : log[p].out \in {"nil", "NotFound"}) =>
        /\ result = NoErr
        /\ \A k \in ListedKeys : \E p \in InstanceCalls : log[p].key = k

====
